---- MODULE Spec2Model ----
(***************************************************************************)
(* State-machine model of the generic persistence core of crudapibuilder:  *)
(* MongoDbRepository (src/src/domain/models/mongodocument.ts) and          *)
(* CrudService (src/src/application/services/crud.ts) running concurrent   *)
(* requests against one MongoDB collection whose unique indexes were       *)
(* created by initCollections().                                           *)
(*                                                                         *)
(* A document, an entity-data value and an update payload are functions    *)
(* from the field names they contain to values: a field that is absent is  *)
(* simply not in the DOMAIN (JavaScript's undefined).  One store call      *)
(* (one await on the collection) is one atomic step; requests interleave   *)
(* between store calls.                                                    *)
(***************************************************************************)
EXTENDS Integers, FiniteSets, Sequences, TLC

VARIABLES
    docs,     \* the collection: the set of live documents
    nextId,   \* number of ObjectIds generated so far, plus one
    pc,       \* per request slot: the call in flight and where it is suspended
    ret,      \* the call completed by the last step (NoRet if it completed none)
    removed,  \* history: ObjectIds whose document a remove call deleted
    exists,   \* the collection exists in the database
    indexes,  \* the names of the collection's indexes other than _id_
    clock,    \* the wall clock read by new Date() outside the repository
    connection \* MongoConnection: its client field and the clients made

vars == <<docs, nextId, pc, ret, removed, exists, indexes, clock, connection>>

----------------------------------------------------------------------------
(* Bounds and input domains *)

MaxIds == 2
NumProcs == 2

Procs == 1..NumProcs
ObjectIds == 1..MaxIds

EmailVals == {"a", "b"}
UserVals == {"u"}
\* A creation date supplied by the caller inside the entity data (README
\* schema example declares a createdAt field); earlier than every date the
\* repository assigns.
SuppliedDate == 0

\* uniqueFields as passed to the constructor in the example client.
uniqueFields == <<"email", "username">>

\* The 24-hex-digit string of an ObjectId, and a string that is not one.
toHexString(oid) == <<"hex", oid>>
MalformedId == <<"INVALID_ID", 0>>
IdStrings == {toHexString(o) : o \in ObjectIds} \cup {MalformedId}

\* new ObjectId(id): the set holding the parsed ObjectId, empty when the
\* constructor throws.
ParseObjectId(id) == IF id[1] = "hex" THEN {id[2]} ELSE {}

\* Functions over a chosen set of keys.
Pick(key, vals) == {<<>>} \cup {(key :> v) : v \in vals}

\* Entity data handed to create: any subset of the entity's fields, possibly
\* with an _id (an ObjectId generated earlier) and a createdAt of its own.
CreateData(n) ==
    {a @@ b @@ c :
        a \in Pick("email", EmailVals), b \in Pick("username", UserVals),
        c \in Pick("_id", 1..(n - 1)) \cup Pick("createdAt", {SuppliedDate})}

\* Non-empty partial payloads handed to update.
UpdateData ==
    {a @@ b @@ d :
        a \in Pick("email", EmailVals), b \in Pick("username", UserVals),
        d \in Pick("createdAt", {SuppliedDate})} \ {<<>>}

\* { ...base, ...data }: later spread properties override earlier ones.
Spread(base, data) ==
    [k \in DOMAIN base \cup DOMAIN data |->
        IF k \in DOMAIN data THEN data[k] ELSE base[k]]

----------------------------------------------------------------------------
(* Errors and outcomes *)

NoError == [type |-> "NONE", statusCode |-> 0, message |-> "", metadata |-> <<>>]

ApplicationError(type, message, statusCode, metadata) ==
    [type |-> type, statusCode |-> statusCode, message |-> message,
     metadata |-> metadata]

ValidationError(message, field) ==
    ApplicationError("VALIDATION_ERROR", message, 400, [field |-> field])

\* What a call hands back: kind says which of the other fields is meant.
Returns(kind, doc, flag) == [kind |-> kind, doc |-> doc, flag |-> flag, error |-> NoError]
ReturnDoc(d) == Returns("doc", {d}, FALSE)
ReturnNull == Returns("null", {}, FALSE)
ReturnBool(b) == Returns("bool", {}, b)
ReturnVoid == Returns("void", {}, FALSE)
NotCalled == Returns("notcalled", {}, FALSE)
\* A PaginatedResult and a count.
ReturnPage(page) ==
    [kind |-> "page", doc |-> {}, flag |-> FALSE, error |-> NoError, page |-> page]
ReturnCount(n) ==
    [kind |-> "count", doc |-> {}, flag |-> FALSE, error |-> NoError, count |-> n]
Throws(e) == [kind |-> "throw", doc |-> {}, flag |-> FALSE, error |-> e]

----------------------------------------------------------------------------
(* The collection, as the MongoDB driver calls used by the repository see it *)

\* new Date(): a logical clock that ticks once per document built.
Now(n) == n

\* createIndexes gives every unique field an index named idx_unique_<field>;
\* the collection always has the _id index.
IndexName(f) == <<"idx_unique_", f>>
IdIndex == <<"_id_", "_id">>

\* The index descriptions createIndexes asks for.
UniqueIndexes == {IndexName(uniqueFields[i]) : i \in 1..Len(uniqueFields)}

\* The key a document has in the index on f: a missing field is indexed
\* as null, like every other document that misses it.
IndexKey(d, f) == IF f \in DOMAIN d THEN {d[f]} ELSE {}

\* Mutant: the unique-field indexes are missing; only _id is enforced.
ViolatedIndexesIdOnly(store, doc) ==
    IF \E e \in store : e._id = doc._id THEN <<IdIndex>> ELSE <<>>

\* The unique indexes that adding doc to store would violate, in index order.
ViolatedIndexes(store, doc) ==
    (IF \E e \in store : e._id = doc._id THEN <<IdIndex>> ELSE <<>>)
    \o SelectSeq([i \in 1..Len(uniqueFields) |-> IndexName(uniqueFields[i])],
                 LAMBDA ix : /\ ix \in indexes
                             /\ \E e \in store : IndexKey(e, ix[2]) = IndexKey(doc, ix[2]))

\* Native errors of the driver: a duplicate-key rejection (code 11000, its
\* message names the violated index), an attempt to change _id (code 66),
\* and any other failure of the store or the transport (code 0).
NativeMessage(code) ==
    CASE code = 11000 -> "E11000 duplicate key error collection"
      [] code = 66 -> "Performing an update on the path '_id' would modify the immutable field '_id'"
      [] code = 48 -> "Collection already exists"
      [] code = 0 -> "connection to the store was lost"
      [] OTHER -> ""
MongoServerError(code, index) ==
    [code |-> code, index |-> index, message |-> NativeMessage(code)]
NoIndex == <<"", "">>
NativeOk == MongoServerError(-1, NoIndex)
StoreFailure == MongoServerError(0, NoIndex)

\* collection.findOne(query) with an optional _id: {$ne: excludeId}: the
\* documents that match (the caller gets one of them, or null).
findOne(store, query, excludeId) ==
    {d \in store : /\ \A k \in DOMAIN query : k \in DOMAIN d /\ d[k] = query[k]
                   /\ d._id \notin excludeId}

\* collection.insertOne(document): the error it raises (NativeOk if none)
\* and the collection afterwards.
insertOne(store, document, fault) ==
    IF fault THEN [error |-> StoreFailure, store |-> store]
    ELSE IF ViolatedIndexes(store, document) # <<>>
    THEN [error |-> MongoServerError(11000, Head(ViolatedIndexes(store, document))),
          store |-> store]
    ELSE [error |-> NativeOk, store |-> store \cup {document}]

\* Mutant: the target is replaced by the payload instead of being merged
\* with it (findOneAndReplace).
findOneAndReplace(store, objectId, data, fault) ==
    LET target == {d \in store : d._id = objectId}
        old == CHOOSE d \in target : TRUE
        new == Spread([_id |-> old._id], data)
        others == store \ target
    IN  IF fault THEN [error |-> StoreFailure, store |-> store, doc |-> {}]
        ELSE IF target = {} THEN [error |-> NativeOk, store |-> store, doc |-> {}]
        ELSE IF ViolatedIndexes(others, new) # <<>>
        THEN [error |-> MongoServerError(11000, Head(ViolatedIndexes(others, new))),
              store |-> store, doc |-> {}]
        ELSE [error |-> NativeOk, store |-> others \cup {new}, doc |-> {new}]

\* collection.findOneAndUpdate({_id}, {$set: data}, {returnDocument: "after"}).
findOneAndUpdate(store, objectId, data, fault) ==
    LET target == {d \in store : d._id = objectId}
        old == CHOOSE d \in target : TRUE
        new == Spread(old, data)
        others == store \ target
    IN  IF fault THEN [error |-> StoreFailure, store |-> store, doc |-> {}]
        ELSE IF target = {} THEN [error |-> NativeOk, store |-> store, doc |-> {}]
        ELSE IF new._id # old._id
        THEN [error |-> MongoServerError(66, NoIndex), store |-> store, doc |-> {}]
        ELSE IF ViolatedIndexes(others, new) # <<>>
        THEN [error |-> MongoServerError(11000, Head(ViolatedIndexes(others, new))),
              store |-> store, doc |-> {}]
        ELSE [error |-> NativeOk, store |-> others \cup {new}, doc |-> {new}]

\* collection.deleteOne({_id}).
deleteOne(store, objectId, fault) ==
    IF fault THEN [error |-> StoreFailure, store |-> store, deletedCount |-> 0]
    ELSE [error |-> NativeOk,
          store |-> {d \in store : d._id # objectId},
          deletedCount |-> Cardinality({d \in store : d._id = objectId})]

----------------------------------------------------------------------------
(* Calls in flight *)

\* A request slot: the operation, where it is suspended, the index of the
\* unique field the pre-check looks up next, and the call's arguments.
Call(op, phase, k, id, data) ==
    [op |-> op, phase |-> phase, k |-> k, id |-> id, data |-> data]
NoId == <<"", 0>>
Idle == Call("idle", "idle", 0, NoId, <<>>)

\* A completed call: its arguments and the phase it ended in, what Repository
\* and Service handed back, what the store said in the completing step (via:
\* "precheck" when the pre-check lookup found a document, "store" when the
\* write was rejected as a duplicate key, else "none"; fault: the store call
\* failed), and whether the collection changed in the completing step.
Completed(r, repo, svc, via, fault, wrote) ==
    [op |-> r.op, phase |-> r.phase, id |-> r.id, data |-> r.data,
     repo |-> repo, svc |-> svc, via |-> via, fault |-> fault, wrote |-> wrote]
NoRet == Completed(Idle, NotCalled, NotCalled, "none", FALSE, FALSE)

\* MongoConnection after construction: client is null (the empty set), no
\* MongoClient was made (made counts all of them, created those made since
\* the last disconnect), none is connected, the process runs.
NoConnection ==
    [client |-> {}, made |-> 0, created |-> 0, open |-> {}, exited |-> FALSE]

\* The effect of one step of a call: the slot, the collection, the ObjectId
\* counter and the completed-call record afterwards.
Effect(r, store, n, event) == [pc |-> r, docs |-> store, nextId |-> n, ret |-> event]

\* What a handler branch hands back and the collection it leaves.
Result(out, store) == [out |-> out, store |-> store]

----------------------------------------------------------------------------
(* MongoDbRepository *)

\* The regular expression /index:\s+([^\s]+)/ applied to the duplicate-key
\* message: the name of the violated index.
extractDuplicateField(error) ==
    IF error.index # NoIndex THEN error.index ELSE <<"unknown_field", "">>

\* The first unique field at position k or later whose value in data is not
\* undefined (Len(uniqueFields) + 1 when there is none): the loop's continue.
RECURSIVE NextField(_, _)
NextField(data, k) ==
    IF k > Len(uniqueFields) THEN k
    ELSE IF uniqueFields[k] \in DOMAIN data THEN k
    ELSE NextField(data, k + 1)

\* Mutant: the lookup does not exclude the document being updated.
validateIncludingSelf(data, excludeId, k, store, fault) ==
    LET fieldName == uniqueFields[k]
        existing == findOne(store, (fieldName :> data[fieldName]), {})
    IN  IF fault THEN "error"
        ELSE IF existing # {} THEN "violation"
        ELSE "next"

\* validateUniqueConstraints, one iteration of its loop (one findOne):
\* "error" when the lookup fails, "violation" when a document is found
\* (return false), "next" otherwise.
validateUniqueConstraints(data, excludeId, k, store, fault) ==
    LET fieldName == uniqueFields[k]
        existing == findOne(store, (fieldName :> data[fieldName]), excludeId)
    IN  IF fault THEN "error"
        ELSE IF existing # {} THEN "violation"
        ELSE "next"

\* The call after the pre-check has passed the fields before position k:
\* suspended at the next lookup, or at the write when no field is left.
Advance(r, k) ==
    IF NextField(r.data, k) <= Len(uniqueFields)
    THEN [r EXCEPT !.phase = "check", !.k = NextField(r.data, k)]
    ELSE [r EXCEPT !.phase = "write", !.k = 0]

\* The DATABASE_ERROR a catch block builds around the error it caught.
DatabaseError(message, operation, error) ==
    ApplicationError("DATABASE_ERROR", message, 500,
                     [operation |-> operation, originalError |-> error.message])

\* validateUniqueConstraints, its catch block: what it throws when a lookup
\* failed.
validateCatch(data) ==
    ApplicationError("DATABASE_ERROR", "Failed to validate unique constraints", 500,
                     [operation |-> "validateUniqueConstraints", data |-> data,
                      uniqueFields |-> uniqueFields])

\* CrudService.create around the repository's outcome.
Service_create(repo) ==
    IF repo.kind = "null"
    THEN Throws(ApplicationError("DATABASE_ERROR", "Failed to create entity", 500, <<>>))
    ELSE repo

\* create, the branch taken when validateUniqueConstraints returned false.
createRejected(r, store) == Result(ReturnNull, store)

\* Mutant: the catch block has no duplicate-key branch.
createCatchNoDuplicate(error) ==
    Throws(DatabaseError("Database operation failed during entity creation", "create",
                         error))

\* create, its catch block: error is what the try block threw.
createCatch(error) ==
    IF "code" \in DOMAIN error /\ error.code = 11000
    THEN Throws(ApplicationError("DUPLICATE_ERROR", "Duplicate value detected", 409,
                    [duplicateField |-> extractDuplicateField(error),
                     operation |-> "create"]))
    ELSE Throws(DatabaseError("Database operation failed during entity creation",
                              "create", error))

\* MongoDbRepository.create (with CrudService.create around it): one step.
\* The error validateUniqueConstraints throws is an ApplicationError, which
\* the catch block wraps like any failure that is not a duplicate key.
create(r, store, n, fault) ==
    LET valid == validateUniqueConstraints(r.data, {}, r.k, store, fault)
        document == Spread([_id |-> n, createdAt |-> Now(n)], r.data)
        ins == insertOne(store, document, fault)
        via == IF r.phase = "check"
               THEN (IF valid = "violation" THEN "precheck" ELSE "none")
               ELSE (IF ins.error.code = 11000 THEN "store" ELSE "none")
        done(res, m) ==
            Effect(Idle, res.store, m,
                   Completed(r, res.out, Service_create(res.out), via, fault,
                             res.store # store))
    IN  IF r.phase = "check"
        THEN CASE valid = "error" ->
                    done(Result(createCatch(validateCatch(r.data)), store), n)
               [] valid = "violation" -> done(createRejected(r, store), n)
               [] OTHER -> Effect(Advance(r, r.k + 1), store, n, NoRet)
        ELSE IF ins.error = NativeOk
             THEN done(Result(ReturnDoc(document), ins.store), n + 1)
             ELSE done(Result(createCatch(ins.error), ins.store), n + 1)

InvalidIdentifier == ValidationError("Invalid entity identifier format", "id")

\* Mutant: the service hands the repository's null on.
Service_readPassThrough(id, repo) == repo

\* CrudService.read around the repository's outcome.
Service_read(id, repo) ==
    IF repo.kind = "null"
    THEN Throws(ApplicationError("NOT_FOUND_ERROR", "Entity with ID ${id} not found", 404,
                                 [requestedId |-> id]))
    ELSE repo

\* Mutant: an identifier that does not parse is answered with null.
readNullOnInvalid(id, store, fault) ==
    LET objectId == ParseObjectId(id)
        document == findOne(store, ("_id" :> CHOOSE o \in objectId : TRUE), {})
    IN  IF objectId = {} THEN ReturnNull
        ELSE IF fault
        THEN Throws(DatabaseError("Database operation failed during entity retrieval",
                                  "read", StoreFailure))
        ELSE IF document # {} THEN ReturnDoc(CHOOSE d \in document : TRUE)
        ELSE ReturnNull

\* Mutant: the lookup does not filter by _id.
readAnyDocument(id, store, fault) ==
    LET objectId == ParseObjectId(id)
        document == findOne(store, <<>>, {})
    IN  IF objectId = {} THEN Throws(ValidationError("Invalid entity identifier format", "id"))
        ELSE IF fault
        THEN Throws(DatabaseError("Database operation failed during entity retrieval",
                                  "read", StoreFailure))
        ELSE IF document # {} THEN ReturnDoc(CHOOSE d \in document : TRUE)
        ELSE ReturnNull

\* MongoDbRepository.read: what it hands back.
read(id, store, fault) ==
    LET objectId == ParseObjectId(id)
        document == findOne(store, ("_id" :> CHOOSE o \in objectId : TRUE), {})
    IN  IF objectId = {} THEN Throws(InvalidIdentifier)
        ELSE IF fault
        THEN Throws(DatabaseError("Database operation failed during entity retrieval",
                                  "read", StoreFailure))
        ELSE IF document # {} THEN ReturnDoc(CHOOSE d \in document : TRUE)
        ELSE ReturnNull

\* CrudService.update around the repository's outcome.
Service_update(id, data, repo) ==
    IF repo.kind = "null"
    THEN Throws(ApplicationError("NOT_FOUND_ERROR",
                    "Entity with ID ${id} not found for update", 404,
                                 [requestedId |-> id, updateData |-> data]))
    ELSE repo

\* Mutant: the rejected update answers null, as create does.
updateRejectedNull(r, store) == Result(ReturnNull, store)

\* Mutant: the payload's other fields are written before the rejection.
updateRejectedAfterWrite(r, store) ==
    LET rest == [k \in DOMAIN r.data \ {uniqueFields[i] : i \in 1..Len(uniqueFields)}
                    |-> r.data[k]]
        written == findOneAndUpdate(store, CHOOSE o \in ParseObjectId(r.id) : TRUE,
                                    rest, FALSE)
    IN  Result(Throws(ApplicationError("DUPLICATE_ERROR",
                          "Update would violate unique constraint", 409,
                          [entityId |-> r.id, updateData |-> r.data,
                           uniqueFields |-> uniqueFields, operation |-> "update"])),
               written.store)

\* update, the branch taken when validateUniqueConstraints returned false.
updateRejected(r, store) ==
    Result(Throws(ApplicationError("DUPLICATE_ERROR",
                      "Update would violate unique constraint", 409,
                      [entityId |-> r.id, updateData |-> r.data,
                       uniqueFields |-> uniqueFields, operation |-> "update"])),
           store)

\* Mutant: the catch block wraps every error, a duplicate key included, as
\* DATABASE_ERROR.
updateCatchAllDatabase(r, error) ==
    Throws(DatabaseError("Database operation failed during entity update", "update",
                         error))

\* update, its catch block for an error that is no ApplicationError.
updateCatch(r, error) ==
    IF error.code = 11000
    THEN Throws(ApplicationError("DUPLICATE_ERROR",
                    "Update would create duplicate value", 409,
                    [duplicateField |-> extractDuplicateField(error),
                     entityId |-> r.id, operation |-> "update"]))
    ELSE Throws(DatabaseError("Database operation failed during entity update",
                              "update", error))

\* MongoDbRepository.update (with CrudService.update around it): one step.
\* ApplicationErrors (the invalid identifier, the pre-check's failure and
\* rejection) are re-thrown as they are.
update(r, store, n, fault) ==
    LET objectId == ParseObjectId(r.id)
        valid == validateUniqueConstraints(r.data, objectId, r.k, store, fault)
        result == findOneAndUpdate(store, CHOOSE o \in objectId : TRUE, r.data, fault)
        via == IF objectId = {} THEN "none"
               ELSE IF r.phase = "check"
               THEN (IF valid = "violation" THEN "precheck" ELSE "none")
               ELSE (IF result.error.code = 11000 THEN "store" ELSE "none")
        done(res) ==
            Effect(Idle, res.store, n,
                   Completed(r, res.out, Service_update(r.id, r.data, res.out),
                             via, fault, res.store # store))
    IN  IF objectId = {} THEN done(Result(Throws(InvalidIdentifier), store))
        ELSE IF r.phase = "check"
        THEN CASE valid = "error" ->
                    done(Result(Throws(validateCatch(r.data)), store))
               [] valid = "violation" -> done(updateRejected(r, store))
               [] OTHER -> Effect(Advance(r, r.k + 1), store, n, NoRet)
        ELSE IF result.error # NativeOk
             THEN done(Result(updateCatch(r, result.error), result.store))
             ELSE IF result.doc # {}
             THEN done(Result(ReturnDoc(CHOOSE d \in result.doc : TRUE), result.store))
             ELSE done(Result(ReturnNull, result.store))

\* MongoDbRepository.remove: what it hands back and the collection afterwards.
remove(id, store, fault) ==
    LET objectId == ParseObjectId(id)
        result == deleteOne(store, CHOOSE o \in objectId : TRUE, fault)
    IN  IF objectId = {}
        THEN Result(Throws(ValidationError("Invalid entity identifier format", "id")),
                    store)
        ELSE IF result.error # NativeOk
        THEN Result(Throws(ApplicationError("DATABASE_ERROR",
                        "Database operation failed during entity removal.", 500, <<>>)),
                    store)
        ELSE Result(ReturnBool(result.deletedCount = 1), result.store)

\* Mutant: the boolean Repository.remove hands back is not looked at.
Service_removedUnchecked(id, removal) ==
    IF removal.kind = "throw" THEN removal ELSE ReturnVoid

\* CrudService.remove after Repository.remove handed back removal.
Service_removed(id, removal) ==
    IF removal.kind = "throw" THEN removal
    ELSE IF ~removal.flag
    THEN Throws(ApplicationError("DATABASE_ERROR",
                    "Failed to remove entity - operation unsuccessful", 500,
                    [entityId |-> id]))
    ELSE ReturnVoid

\* CrudService.remove: read(id) first, then Repository.remove; one step each.
Service_remove(r, store, n, fault) ==
    LET found == Service_read(r.id, read(r.id, store, fault))
        removal == remove(r.id, store, fault)
        done(repo, svc, st) ==
            Effect(Idle, st, n, Completed(r, repo, svc, "none", fault, st # store))
    IN  IF r.phase = "svcread"
        THEN IF found.kind = "throw" THEN done(NotCalled, found, store)
             ELSE Effect([r EXCEPT !.phase = "svcremove"], store, n, NoRet)
        ELSE done(removal.out, Service_removed(r.id, removal.out), removal.store)

----------------------------------------------------------------------------
(* The HTTP boundary *)

\* globalErrorHandler for an ApplicationError: the status and the JSON body
\* of the response (the timestamp left out); details is the error's
\* metadata when it has any.
globalErrorHandler(error) ==
    [status |-> error.statusCode,
     body |-> [success |-> FALSE,
               error |-> IF DOMAIN error.metadata # {}
                         THEN [type |-> error.type, message |-> error.message,
                               details |-> error.metadata]
                         ELSE [type |-> error.type, message |-> error.message]]]

----------------------------------------------------------------------------
(* The state machine *)

Init ==
    /\ docs = {}
    /\ nextId = 1
    /\ pc = [p \in Procs |-> Idle]
    /\ ret = NoRet
    /\ removed = {}
    /\ exists = TRUE
    /\ indexes = UniqueIndexes
    /\ clock = 0
    /\ connection = NoConnection

\* Request slot p takes the step whose effect is e.  A completed call is
\* handed to its caller (Deliver) before anything else happens.
Take(p, e) ==
    /\ ret = NoRet
    /\ pc' = [pc EXCEPT ![p] = e.pc]
    /\ docs' = e.docs
    /\ nextId' = e.nextId
    /\ ret' = e.ret
    /\ removed' = IF e.ret.op \in {"remove", "svcRemove"}
                  THEN removed \cup {d._id : d \in docs \ e.docs}
                  ELSE removed
    /\ UNCHANGED <<exists, indexes, clock, connection>>

\* An ObjectId is left for every create in flight and one more.
IdsLeft == nextId + Cardinality({q \in Procs : pc[q].op = "create"}) <= MaxIds

\* Request slots are interchangeable: a new request takes the lowest free one.
Free(p) == pc[p] = Idle /\ \A q \in Procs : q < p => pc[q] # Idle

\* A create request arrives and runs up to its first store call.
Create(p) ==
    /\ Free(p)
    /\ IdsLeft
    /\ \E data \in CreateData(nextId), fault \in BOOLEAN :
        Take(p, create(Advance(Call("create", "start", 0, NoId, data), 1),
                       docs, nextId, fault))

\* A read request: its single store call.
Read(p) ==
    /\ Free(p)
    /\ \E id \in IdStrings, fault \in BOOLEAN :
        LET r == Call("read", "start", 0, id, <<>>)
            repo == read(id, docs, fault)
        IN  Take(p, Effect(Idle, docs, nextId,
                           Completed(r, repo, Service_read(id, repo), "none", fault,
                                     FALSE)))

\* An update request arrives and runs up to its first store call.
Update(p) ==
    /\ Free(p)
    /\ \E id \in IdStrings, data \in UpdateData, fault \in BOOLEAN :
        Take(p, update(Advance(Call("update", "start", 0, id, data), 1),
                       docs, nextId, fault))

\* A Repository.remove call: its single store call.
Remove(p) ==
    /\ Free(p)
    /\ \E id \in IdStrings, fault \in BOOLEAN :
        LET r == Call("remove", "start", 0, id, <<>>)
            removal == remove(id, docs, fault)
        IN  Take(p, Effect(Idle, removal.store, nextId,
                           Completed(r, removal.out, NotCalled, "none", fault,
                                     removal.store # docs)))

\* A Service.remove request arrives and performs its read.
ServiceRemove(p) ==
    /\ Free(p)
    /\ \E id \in IdStrings, fault \in BOOLEAN :
        Take(p, Service_remove(Call("svcRemove", "svcread", 0, id, <<>>),
                               docs, nextId, fault))

\* A suspended call performs its next store call.
Resume(p) ==
    /\ pc[p] # Idle
    /\ \E fault \in BOOLEAN :
        Take(p, CASE pc[p].op = "create" -> create(pc[p], docs, nextId, fault)
                  [] pc[p].op = "update" -> update(pc[p], docs, nextId, fault)
                  [] OTHER -> Service_remove(pc[p], docs, nextId, fault))

\* The completed call's result reaches its caller.
Deliver ==
    /\ ret # NoRet
    /\ ret' = NoRet
    /\ UNCHANGED <<docs, nextId, pc, removed, exists, indexes, clock, connection>>

Next ==
    \/ Deliver
    \/ \E p \in Procs :
        \/ Create(p)
        \/ Read(p)
        \/ Update(p)
        \/ Remove(p)
        \/ ServiceRemove(p)
        \/ Resume(p)

Spec == Init /\ [][Next]_vars

----------------------------------------------------------------------------
(* Initialization: initCollections on a database that may already hold the
   collection, with documents written before the unique fields were declared *)

MaxInits == 2

\* Documents of a collection that had no unique indexes.
LegacyDocs ==
    {Spread([_id |-> i, createdAt |-> Now(i)], e) :
        i \in ObjectIds, e \in Pick("email", EmailVals)}
LegacyStores ==
    {S \in SUBSET LegacyDocs : \A d1 \in S, d2 \in S : d1._id = d2._id => d1 = d2}

\* A unique index ix can be built over store: no two documents share a key.
Buildable(store, ix) ==
    \A d1 \in store, d2 \in store :
        d1 # d2 => IndexKey(d1, ix[2]) # IndexKey(d2, ix[2])

\* An error that is no ApplicationError, as it leaves a method that does not
\* catch it.
Uncaught(error) == ApplicationError("UNCAUGHT", error.message, 0, <<>>)

\* The caller's position after k calls of initCollections returned.
Started(k) == Call("started", "idle", k, NoId, <<>>)

\* db.listCollections({name}).toArray(): the error and the list's length.
listCollections(fault) ==
    [error |-> IF fault THEN StoreFailure ELSE NativeOk,
     length |-> IF exists /\ ~fault THEN 1 ELSE 0]

\* db.createCollection(name): the error and whether the collection exists
\* afterwards.
createCollection(fault) ==
    IF fault THEN [error |-> StoreFailure, exists |-> exists]
    ELSE IF exists THEN [error |-> MongoServerError(48, NoIndex), exists |-> TRUE]
    ELSE [error |-> NativeOk, exists |-> TRUE]

\* collection.createIndexes(specs): an index that exists under its name is
\* left alone; the build fails as a whole when documents share a key.
nativeCreateIndexes(store, specs, fault) ==
    IF fault THEN [error |-> StoreFailure, indexes |-> indexes]
    ELSE IF \E ix \in specs \ indexes : ~Buildable(store, ix)
    THEN [error |-> MongoServerError(11000, NoIndex), indexes |-> indexes]
    ELSE [error |-> NativeOk, indexes |-> indexes \cup specs]

\* MongoDbRepository.createIndexes: the collection's indexes afterwards; an
\* error of the store is logged to the console and swallowed.
createIndexes(store, fault) ==
    IF Len(uniqueFields) = 0 THEN indexes
    ELSE nativeCreateIndexes(store, UniqueIndexes, fault).indexes

\* MongoDbRepository.initCollections, one step (one store call): the slot,
\* the completed call, and the collection's existence and indexes afterwards.
initCollections(r, back, fault) ==
    LET list == listCollections(fault)
        isNewCollection == list.length = 0
        made == createCollection(fault)
        step(q, e, x, ixs) == [pc |-> q, ret |-> e, exists |-> x, indexes |-> ixs]
        throw(error) ==
            step(back, Completed(r, Throws(Uncaught(error)), NotCalled, "none", fault,
                                 FALSE), exists, indexes)
    IN  CASE r.phase = "listCollections" ->
                IF list.error # NativeOk THEN throw(list.error)
                ELSE step([r EXCEPT !.phase = IF isNewCollection THEN "createCollection"
                                                 ELSE "createIndexes",
                                    !.data = [call |-> r.data.call,
                                              isNewCollection |-> isNewCollection]],
                          NoRet, exists, indexes)
          [] r.phase = "createCollection" ->
                IF made.error # NativeOk THEN throw(made.error)
                ELSE step([r EXCEPT !.phase = "createIndexes"], NoRet, made.exists,
                          indexes)
          [] OTHER ->
                step(Started(r.k),
                     Completed(r, ReturnBool(r.data.isNewCollection), NotCalled, "none",
                               fault, createIndexes(docs, fault) # indexes),
                     exists, createIndexes(docs, fault))

\* A database as initCollections may find it.
InitLegacy ==
    /\ docs \in LegacyStores
    /\ nextId = MaxIds + 1
    /\ pc = [p \in Procs |-> Idle]
    /\ ret = NoRet
    /\ removed = {}
    /\ exists \in {b \in BOOLEAN : docs # {} => b}
    /\ indexes \in {ixs \in SUBSET UniqueIndexes :
                        /\ ixs # {} => exists
                        /\ \A ix \in ixs : Buildable(docs, ix)}
    /\ clock = 0
    /\ connection = NoConnection

\* The step e of the initCollections call in slot p takes effect.
InitStep(p, e) ==
    /\ ret = NoRet
    /\ pc' = [pc EXCEPT ![p] = e.pc]
    /\ ret' = e.ret
    /\ exists' = e.exists
    /\ indexes' = e.indexes
    /\ UNCHANGED <<docs, nextId, removed, clock, connection>>

\* The application's start-up calls initCollections: listCollections.
InitCollections(p) ==
    /\ pc[p].op \in {"idle", "started"}
    /\ pc[p].k < MaxInits
    /\ \A q \in Procs \ {p} : pc[q] = Idle /\ p < q
    /\ \E fault \in BOOLEAN :
        InitStep(p, initCollections(
                        Call("init", "listCollections", pc[p].k + 1, NoId,
                             [call |-> pc[p].k + 1]),
                        pc[p], fault))

\* The call goes on: createCollection, then createIndexes.
InitResume(p) ==
    /\ pc[p].op = "init"
    /\ \E fault \in BOOLEAN :
        InitStep(p, initCollections(pc[p], Started(pc[p].k - 1), fault))

InitNext == Deliver \/ \E p \in Procs : InitCollections(p) \/ InitResume(p)

InitSpec == InitLegacy /\ [][InitNext]_vars

----------------------------------------------------------------------------
(* Queries: find, findOne and count over a collection at rest *)

MaxDocs == 3
MaxSkip == 3
MaxLimit == 3

\* Values of the unique fields, one per document, and of a field that is
\* not unique.
Letters == <<"a", "b", "c", "d", "e">>
PasswordVals == {"x", "y"}

\* The collections queried: documents with distinct unique values.
QueryStores ==
    {{[_id |-> i, createdAt |-> Now(i), email |-> Letters[i],
       username |-> Letters[i], password |-> pw[i]] : i \in ids} :
        ids \in SUBSET (1..MaxDocs), pw \in [1..MaxDocs -> PasswordVals]}

\* The filters and the pagination options handed to the queries.
Queries == Pick("password", PasswordVals) \cup Pick("email", {"a", "z"})
Options ==
    {a @@ b @@ c : a \in Pick("skip", 0..MaxSkip), b \in Pick("limit", 0..MaxLimit),
                   c \in Pick("sortOrder", {1})}

\* const { key = value } = options.
Default(options, key, value) == IF key \in DOMAIN options THEN options[key] ELSE value

\* collection.countDocuments(query).
countDocuments(store, query) == Cardinality(findOne(store, query, {}))

\* The documents of S ordered by sortBy, ascending for sortOrder 1 and
\* descending for -1.
RECURSIVE SortDocs(_, _, _)
SortDocs(S, sortBy, sortOrder) ==
    IF S = {} THEN <<>>
    ELSE LET first == CHOOSE d \in S :
                          \A e \in S : sortOrder * (e[sortBy] - d[sortBy]) >= 0
         IN  <<first>> \o SortDocs(S \ {first}, sortBy, sortOrder)

\* collection.find(query, {skip, limit, sort}).toArray(): a limit of 0 is
\* no limit.
findToArray(store, query, findOptions) ==
    LET sorted == SortDocs(findOne(store, query, {}), findOptions.sortBy,
                           findOptions.sortOrder)
        last == IF findOptions.limit = 0 \/ findOptions.skip + findOptions.limit > Len(sorted)
                THEN Len(sorted)
                ELSE findOptions.skip + findOptions.limit
    IN  SubSeq(sorted, findOptions.skip + 1, last)

\* Mutant: the page that ends at the last document claims a next page.
hasNextInclusive(skip, limit, total) == skip + limit <= total

hasNext(skip, limit, total) == skip + limit < total

\* MongoDbRepository.find: count and page, both read from the same
\* collection.
find(query, options, store, fault) ==
    LET skip == Default(options, "skip", 0)
        limit == Default(options, "limit", 20)
        sortBy == Default(options, "sortBy", "createdAt")
        sortOrder == Default(options, "sortOrder", -1)
        total == countDocuments(store, query)
        data == findToArray(store, query,
                            [skip |-> skip, limit |-> limit, sortBy |-> sortBy,
                             sortOrder |-> sortOrder])
    IN  IF fault
        THEN Throws(ApplicationError("DATABASE_ERROR",
                        "Database operation failed during entity search.", 500, <<>>))
        ELSE ReturnPage([data |-> data, total |-> total, skip |-> skip,
                         limit |-> limit, hasNext |-> hasNext(skip, limit, total),
                         hasPrevious |-> skip > 0])

\* MongoDbRepository.findOne.
Repository_findOne(query, store, fault) ==
    LET document == findOne(store, query, {})
    IN  IF fault
        THEN Throws(ApplicationError("DATABASE_ERROR",
                        "Database operation failed while finding a single entity.",
                        500, <<>>))
        ELSE IF document # {} THEN ReturnDoc(CHOOSE d \in document : TRUE)
        ELSE ReturnNull

\* MongoDbRepository.count.
count(query, store, fault) ==
    IF fault
    THEN Throws(ApplicationError("DATABASE_ERROR",
                    "Database operation failed during entity count.", 500, <<>>))
    ELSE ReturnCount(countDocuments(store, query))

\* A collection at rest, its indexes in place.
InitQuery ==
    /\ docs \in QueryStores
    /\ nextId = MaxDocs + 1
    /\ pc = [p \in Procs |-> Idle]
    /\ ret = NoRet
    /\ removed = {}
    /\ exists = TRUE
    /\ indexes = UniqueIndexes
    /\ clock = 0
    /\ connection = NoConnection

\* A find request (CrudService.find hands the repository's result on).
Find(p) ==
    /\ Free(p)
    /\ \E query \in Queries, options \in Options, fault \in BOOLEAN :
        LET r == Call("find", "start", 0, NoId, [query |-> query, options |-> options])
            repo == find(query, options, docs, fault)
        IN  Take(p, Effect(Idle, docs, nextId,
                           Completed(r, repo, repo, "none", fault, FALSE)))

FindOne(p) ==
    /\ Free(p)
    /\ \E query \in Queries, fault \in BOOLEAN :
        LET r == Call("findOne", "start", 0, NoId, [query |-> query])
        IN  Take(p, Effect(Idle, docs, nextId,
                           Completed(r, Repository_findOne(query, docs, fault),
                                     NotCalled, "none", fault, FALSE)))

Count(p) ==
    /\ Free(p)
    /\ \E query \in Queries, fault \in BOOLEAN :
        LET r == Call("count", "start", 0, NoId, [query |-> query])
        IN  Take(p, Effect(Idle, docs, nextId,
                           Completed(r, count(query, docs, fault), NotCalled, "none",
                                     fault, FALSE)))

QueryNext == Deliver \/ \E p \in Procs : Find(p) \/ FindOne(p) \/ Count(p)

QuerySpec == InitQuery /\ [][QueryNext]_vars

----------------------------------------------------------------------------
(* The repository with a logger whose calls may throw.  logger says whether
   the logger calls made in a step return (TRUE) or throw (FALSE). *)

\* What a throwing logger call throws.
LoggerError == [message |-> "logger transport failed"]

\* create: every completing step logs (warn on a violation, error in the
\* catch blocks, debug after the insert) inside the try block, and the catch
\* block logs again before it builds its error.
createLogged(r, store, n, fault, logger) ==
    LET e == create(r, store, n, fault)
    IN  IF logger \/ e.ret = NoRet THEN e
        ELSE [e EXCEPT !.ret.repo = Throws(Uncaught(LoggerError))]

\* read: logs debug when it found the document and error in the catch
\* block, which re-throws a ValidationError before it logs.
readLogged(id, store, fault, logger) ==
    LET out == read(id, store, fault)
    IN  IF logger \/ out.kind = "null" \/ out.error.type = "VALIDATION_ERROR"
        THEN out
        ELSE Throws(Uncaught(LoggerError))

\* remove: logs debug on entry, before the try block.
removeLogged(id, store, fault, logger) ==
    IF logger THEN remove(id, store, fault)
    ELSE Result(Throws(Uncaught(LoggerError)), store)

\* A completed call on the repository itself (no service in front of it),
\* together with what the same step hands back, and the collection it
\* leaves, when the logger calls return.
Logged(e, sound) ==
    IF e.ret = NoRet THEN e
    ELSE [e EXCEPT !.ret = [e.ret EXCEPT !.svc = NotCalled]
                           @@ [sound |-> [out |-> sound.ret.repo,
                                          store |-> sound.docs]]]

LoggedCreate(p) ==
    /\ Free(p)
    /\ IdsLeft
    /\ \E data \in CreateData(nextId), fault \in BOOLEAN, logger \in BOOLEAN :
        LET r == Advance(Call("create", "start", 0, NoId, data), 1)
        IN  Take(p, Logged(createLogged(r, docs, nextId, fault, logger),
                           create(r, docs, nextId, fault)))

LoggedResume(p) ==
    /\ pc[p].op = "create"
    /\ \E fault \in BOOLEAN, logger \in BOOLEAN :
        Take(p, Logged(createLogged(pc[p], docs, nextId, fault, logger),
                       create(pc[p], docs, nextId, fault)))

LoggedRead(p) ==
    /\ Free(p)
    /\ \E id \in IdStrings, fault \in BOOLEAN, logger \in BOOLEAN :
        LET r == Call("read", "start", 0, id, <<>>)
            event(out) == Completed(r, out, NotCalled, "none", fault, FALSE)
        IN  Take(p, Logged(Effect(Idle, docs, nextId,
                                  event(readLogged(id, docs, fault, logger))),
                           Effect(Idle, docs, nextId, event(read(id, docs, fault)))))

LoggedRemove(p) ==
    /\ Free(p)
    /\ \E id \in IdStrings, fault \in BOOLEAN, logger \in BOOLEAN :
        LET r == Call("remove", "start", 0, id, <<>>)
            effect(removal) ==
                Effect(Idle, removal.store, nextId,
                       Completed(r, removal.out, NotCalled, "none", fault,
                                 removal.store # docs))
        IN  Take(p, Logged(effect(removeLogged(id, docs, fault, logger)),
                           effect(remove(id, docs, fault))))

LoggerNext ==
    \/ Deliver
    \/ \E p \in Procs :
        \/ LoggedCreate(p)
        \/ LoggedResume(p)
        \/ LoggedRead(p)
        \/ LoggedRemove(p)

LoggerSpec == Init /\ [][LoggerNext]_vars

----------------------------------------------------------------------------
(* Strings of a request: a string is the sequence of its characters, so that
   parsing is done character by character as JavaScript does it *)

DecDigits == <<"0", "1", "2", "3", "4", "5", "6", "7", "8", "9">>
HexDigits == DecDigits \o <<"a", "b", "c", "d", "e", "f">>

\* The value of character c as a digit of the digit list (radix Len(digits)).
IsDigit(c, digits) == \E i \in 1..Len(digits) : digits[i] = c
DigitValue(c, digits) == (CHOOSE i \in 1..Len(digits) : digits[i] = c) - 1

\* A number value: NaN, an infinity of the sign in value, or the finite
\* number value / 10^scale (scale is 0 for an integer).
NaN == [nan |-> TRUE, infinite |-> FALSE, value |-> 0, scale |-> 0]
Num(v) == [nan |-> FALSE, infinite |-> FALSE, value |-> v, scale |-> 0]
Infinity(sign) == [nan |-> FALSE, infinite |-> TRUE, value |-> sign, scale |-> 0]

\* String.prototype.trimStart, trimEnd and trim (the only white space in the
\* strings considered is the blank).
RECURSIVE TrimStart(_)
TrimStart(s) == IF s # <<>> /\ Head(s) = " " THEN TrimStart(Tail(s)) ELSE s
RECURSIVE TrimEnd(_)
TrimEnd(s) ==
    IF s # <<>> /\ s[Len(s)] = " " THEN TrimEnd(SubSeq(s, 1, Len(s) - 1)) ELSE s
Trim(s) == TrimEnd(TrimStart(s))

\* The length of the longest prefix of s made of digits.
RECURSIVE DigitPrefix(_, _)
DigitPrefix(s, digits) ==
    IF s # <<>> /\ IsDigit(Head(s), digits) THEN 1 + DigitPrefix(Tail(s), digits)
    ELSE 0

\* The mathematical value of a string of digits.
RECURSIVE DigitsValue(_, _)
DigitsValue(s, digits) ==
    IF s = <<>> THEN 0
    ELSE DigitsValue(SubSeq(s, 1, Len(s) - 1), digits) * Len(digits)
            + DigitValue(s[Len(s)], digits)

HasHexPrefix(s) == Len(s) >= 2 /\ s[1] = "0" /\ s[2] \in {"x", "X"}

\* parseInt(string) without a radix: leading white space and a sign are
\* skipped, 0x selects radix 16, the longest prefix of digits is the value
\* and what follows is ignored; NaN when there is no digit.
parseInt(s) ==
    LET t == TrimStart(s)
        sign == IF t # <<>> /\ Head(t) = "-" THEN -1 ELSE 1
        u == IF t # <<>> /\ Head(t) \in {"-", "+"} THEN Tail(t) ELSE t
        digits == IF HasHexPrefix(u) THEN HexDigits ELSE DecDigits
        v == IF HasHexPrefix(u) THEN SubSeq(u, 3, Len(u)) ELSE u
        n == DigitPrefix(v, digits)
    IN  IF n = 0 THEN NaN ELSE Num(sign * DigitsValue(SubSeq(v, 1, n), digits))

\* req.query[key] handed to parseInt: an absent parameter is undefined.
parseIntParam(query, key) == IF key \in DOMAIN query THEN parseInt(query[key]) ELSE NaN

\* number || fallback: NaN and 0 are falsy.
OrNumber(n, fallback) == IF n.nan \/ n.value = 0 THEN fallback ELSE n.value

----------------------------------------------------------------------------
(* CrudController.find: list requests over a collection at rest *)

\* What a controller method does with a request: it sends a response, or
\* it hands an error to next().
Send(status, body) == [kind |-> "send", status |-> status, body |-> body, error |-> NoError]
Forward(error) == [kind |-> "next", status |-> 0, body |-> <<>>, error |-> error]

\* The texts given for skip and for limit in the query string of a list
\* request.
SkipTexts ==
    {<<>>, <<"0">>, <<"1">>, <<"-", "1">>, <<"1", "x">>, <<" ", "2">>, <<"a">>,
     <<"0", "x", "2">>}
LimitTexts == {<<"0">>, <<"2">>, <<"-", "1">>, <<"2", "0", "0">>}

\* The query strings of list requests: each pagination parameter may be
\* left out.
ListParams ==
    {a @@ b @@ c @@ d :
        a \in Pick("skip", SkipTexts), b \in Pick("limit", LimitTexts),
        c \in Pick("sortBy", {"_id"}), d \in Pick("sortOrder", {"asc", "desc"})}

\* Math.min.
Min(a, b) == IF a < b THEN a ELSE b

\* CrudController.find with CrudService.find behind it: the service's
\* outcome and what the controller does with the request.
Controller_find(query, findDto, store, fault) ==
    LET paginationOptions ==
            [skip |-> OrNumber(parseIntParam(query, "skip"), 0),
             limit |-> Min(OrNumber(parseIntParam(query, "limit"), 50), 100),
             sortBy |-> IF "sortBy" \in DOMAIN query /\ query.sortBy # ""
                        THEN query.sortBy ELSE "createdAt",
             sortOrder |-> IF "sortOrder" \in DOMAIN query /\ query.sortOrder = "desc"
                           THEN -1 ELSE 1]
        result == find(findDto, paginationOptions, store, fault)
        page == result.page
    IN  IF paginationOptions.skip < 0
        THEN [svc |-> NotCalled,
              http |-> Forward(ValidationError("Skip parameter must be non-negative",
                                               "skip"))]
        ELSE IF paginationOptions.limit <= 0
        THEN [svc |-> NotCalled,
              http |-> Forward(ValidationError("Limit parameter must be positive",
                                               "limit"))]
        ELSE IF result.kind = "throw"
        THEN [svc |-> result, http |-> Forward(result.error)]
        ELSE [svc |-> result,
              http |-> Send(200,
                  [success |-> TRUE, message |-> "Entities retrieved successfully",
                   data |-> page.data,
                   pagination |->
                       [skip |-> page.skip, limit |-> page.limit, total |-> page.total,
                        hasNext |-> page.hasNext, hasPrevious |-> page.hasPrevious,
                        currentPage |-> (page.skip \div page.limit) + 1,
                        totalPages |-> (page.total + page.limit - 1) \div page.limit]])]

\* A list request (GET on the collection route) handled by the controller.
ControllerFind(p) ==
    /\ Free(p)
    /\ \E findDto \in Pick("password", PasswordVals), query \in ListParams,
          fault \in BOOLEAN :
        LET r == Call("list", "start", 0, NoId, [query |-> findDto, params |-> query])
            done == Controller_find(query, findDto, docs, fault)
        IN  Take(p, Effect(Idle, docs, nextId,
                           Completed(r, done.svc, done.svc, "none", fault, FALSE)
                               @@ [http |-> done.http]))

ListNext == Deliver \/ \E p \in Procs : Find(p) \/ ControllerFind(p)

ListSpec == InitQuery /\ [][ListNext]_vars

----------------------------------------------------------------------------
(* Validation of list requests: coercion of the query string's filters *)

RECURSIVE Power10(_)
Power10(n) == IF n = 0 THEN 1 ELSE 10 * Power10(n - 1)

\* The number m * 10^shift, its fraction reduced.
RECURSIVE Decimal(_, _)
Decimal(m, shift) ==
    IF shift >= 0 THEN Num(m * Power10(shift))
    ELSE IF m % 10 = 0 THEN Decimal(m \div 10, shift + 1)
    ELSE [nan |-> FALSE, infinite |-> FALSE, value |-> m, scale |-> -shift]

InfinityText == <<"I", "n", "f", "i", "n", "i", "t", "y">>

\* The digits of a literal with the prefix 0x, 0o or 0b (<<>> without one).
RadixDigits(s) ==
    IF Len(s) < 2 \/ s[1] # "0" THEN <<>>
    ELSE CASE s[2] \in {"x", "X"} -> HexDigits
           [] s[2] \in {"o", "O"} -> SubSeq(DecDigits, 1, 8)
           [] s[2] \in {"b", "B"} -> SubSeq(DecDigits, 1, 2)
           [] OTHER -> <<>>

\* A decimal literal without its sign: digits, an optional fraction and an
\* optional exponent, nothing after them.
DecimalLiteral(u, sign) ==
    LET intLen == DigitPrefix(u, DecDigits)
        afterInt == SubSeq(u, intLen + 1, Len(u))
        hasPoint == afterInt # <<>> /\ Head(afterInt) = "."
        fracLen == IF hasPoint THEN DigitPrefix(Tail(afterInt), DecDigits) ELSE 0
        afterFrac == IF hasPoint THEN SubSeq(afterInt, fracLen + 2, Len(afterInt))
                     ELSE afterInt
        hasExp == afterFrac # <<>> /\ Head(afterFrac) \in {"e", "E"}
        expText == IF hasExp THEN Tail(afterFrac) ELSE <<>>
        expSign == IF expText # <<>> /\ Head(expText) = "-" THEN -1 ELSE 1
        expDigits == IF expText # <<>> /\ Head(expText) \in {"-", "+"}
                     THEN Tail(expText) ELSE expText
        expLen == DigitPrefix(expDigits, DecDigits)
        mantissa == DigitsValue(SubSeq(u, 1, intLen)
                                \o (IF hasPoint THEN SubSeq(afterInt, 2, fracLen + 1)
                                    ELSE <<>>), DecDigits)
        exponent == expSign * DigitsValue(expDigits, DecDigits)
    IN  IF intLen + fracLen = 0 THEN NaN
        ELSE IF hasExp /\ (expLen = 0 \/ expLen # Len(expDigits)) THEN NaN
        ELSE IF ~hasExp /\ afterFrac # <<>> THEN NaN
        ELSE Decimal(sign * mantissa, exponent - fracLen)

\* Number(string): white space around the literal is dropped, the empty
\* string is 0, a literal with a radix prefix takes no sign, anything that
\* is not wholly a numeric literal is NaN.
Number(s) ==
    LET t == Trim(s)
        digits == RadixDigits(t)
        rest == SubSeq(t, 3, Len(t))
        sign == IF t # <<>> /\ Head(t) = "-" THEN -1 ELSE 1
        u == IF t # <<>> /\ Head(t) \in {"-", "+"} THEN Tail(t) ELSE t
    IN  IF t = <<>> THEN Num(0)
        ELSE IF digits # <<>>
        THEN (IF rest # <<>> /\ DigitPrefix(rest, digits) = Len(rest)
              THEN Num(DigitsValue(rest, digits)) ELSE NaN)
        ELSE IF u = InfinityText THEN Infinity(sign)
        ELSE DecimalLiteral(u, sign)

isNaN(n) == n.nan

\* Typed values of a filter after coercion.
StringValue(s) == [type |-> "string", value |-> s]
BooleanValue(b) == [type |-> "boolean", value |-> b]
NumberValue(n) == [type |-> "number", value |-> n]
DateValue(t) == [type |-> "date", value |-> t]

TrueText == <<"t", "r", "u", "e">>
FalseText == <<"f", "a", "l", "s", "e">>

\* The number written by the two digits of s at positions i and i + 1, and
\* by the four at i .. i + 3.
TwoDigits(s, i) == DigitsValue(SubSeq(s, i, i + 1), DecDigits)
FourDigits(s, i) == DigitsValue(SubSeq(s, i, i + 3), DecDigits)

\* /^\d{4}-\d{2}-\d{2}T\d{2}:\d{2}:\d{2}/.test(value): the pattern is not
\* anchored at its end.
IsoPattern(s) ==
    /\ Len(s) >= 19
    /\ \A i \in {1, 2, 3, 4, 6, 7, 9, 10, 12, 13, 15, 16, 18, 19} : IsDigit(s[i], DecDigits)
    /\ s[5] = "-" /\ s[8] = "-" /\ s[11] = "T" /\ s[14] = ":" /\ s[17] = ":"

\* new Date(value) for a string that matches the pattern and ends after the
\* seconds or with Z: the time it denotes; isNaN(date.getTime()) when a
\* component is out of range or other text follows.
NewDate(s) ==
    [year |-> FourDigits(s, 1), month |-> TwoDigits(s, 6), day |-> TwoDigits(s, 9),
     hour |-> TwoDigits(s, 12), minute |-> TwoDigits(s, 15),
     second |-> TwoDigits(s, 18), utc |-> Len(s) > 19]
InvalidDate(s) ==
    \/ TwoDigits(s, 6) \notin 1..12
    \/ TwoDigits(s, 9) \notin 1..31
    \/ TwoDigits(s, 12) > 24
    \/ (TwoDigits(s, 12) = 24 /\ TwoDigits(s, 15) + TwoDigits(s, 18) > 0)
    \/ TwoDigits(s, 15) > 59
    \/ TwoDigits(s, 18) > 59
    \/ SubSeq(s, 20, Len(s)) \notin {<<>>, <<"Z">>}

\* coerceQueryParameters, the branch taken for one string value.
CoerceValue(value) ==
    IF value = TrueText THEN BooleanValue(TRUE)
    ELSE IF value = FalseText THEN BooleanValue(FALSE)
    ELSE IF ~isNaN(Number(value)) /\ Trim(value) # <<>> THEN NumberValue(Number(value))
    ELSE IF IsoPattern(value)
    THEN (IF ~InvalidDate(value) THEN DateValue(NewDate(value)) ELSE StringValue(value))
    ELSE StringValue(value)

\* coerceQueryParameters: every value of a query string is a string.
coerceQueryParameters(params) == [key \in DOMAIN params |-> CoerceValue(params[key])]

\* The entity schema of the README: name: z.string().min(1),
\* price: z.number().positive(), inStock: z.boolean().
ProductSchema == [name |-> "string", price |-> "number", inStock |-> "boolean"]

\* A field's Zod type accepts a value.
Accepts(type, v) ==
    CASE type = "string" -> v.type = "string" /\ Len(v.value) >= 1
      [] type = "number" -> v.type = "number" /\ v.value.value > 0
      [] OTHER -> v.type = type

\* The parameters that are pagination, not filters.
PaginationKeys == {"skip", "limit", "sortBy", "sortOrder"}

\* handleFindValidation inside validationMiddleware (coerceTypes is true by
\* default): the coerced filters, and either res.locals.findDto or the
\* ValidationError handed to next() for the ZodError of schema.partial().
handleFindValidation(query) ==
    LET filterParams == [key \in DOMAIN query \ PaginationKeys |-> query[key]]
        processedParams == coerceQueryParameters(filterParams)
        known == DOMAIN processedParams \cap DOMAIN ProductSchema
        issues == {key \in known : ~Accepts(ProductSchema[key], processedParams[key])}
    IN  [coerced |-> processedParams,
         findDto |-> IF issues = {} THEN [key \in known |-> processedParams[key]]
                     ELSE <<>>,
         http |-> IF issues = {} THEN Send(0, <<>>)
                  ELSE Forward(ApplicationError("VALIDATION_ERROR",
                                   "Request validation failed", 400,
                                   [violations |-> issues]))]

MaxText == 3

\* The strings of at most MaxText characters a filter may carry, and longer
\* ones of interest.
Alphabet == {"0", "1", "x", " ", "-", "e", "."}
Texts == UNION {[1..n -> Alphabet] : n \in 0..MaxText}
IsoText ==
    <<"2", "0", "2", "4", "-", "0", "1", "-", "1", "5", "T",
      "1", "0", ":", "3", "0", ":", "0", "0">>
LongTexts ==
    {<<>>, <<"x">>, <<"1", "0">>, TrueText, FalseText, <<"T", "r", "u", "e">>,
     InfinityText, IsoText, IsoText \o <<"Z">>, IsoText \o <<"x">>,
     [IsoText EXCEPT ![6] = "1", ![7] = "3"]}

\* The query strings of the list requests validated.
FilterParams ==
    {a @@ b @@ c :
        a \in Pick("price", Texts), b \in Pick("name", LongTexts),
        c \in {<<>>, [inStock |-> TrueText, limit |-> <<"2">>, empty |-> <<>>]}}

\* The validation middleware handles a list request.
ValidateFind(p) ==
    /\ Free(p)
    /\ \E query \in FilterParams :
        LET r == Call("validateFind", "start", 0, NoId, query)
        IN  Take(p, Effect(Idle, docs, nextId,
                           Completed(r, NotCalled, NotCalled, "none", FALSE, FALSE)
                               @@ handleFindValidation(query)))

FilterNext == Deliver \/ \E p \in Procs : ValidateFind(p)

FilterSpec == Init /\ [][FilterNext]_vars

----------------------------------------------------------------------------
(* Documentation: the OpenAPI object generated from the schema *)

MaxClock == 2

\* The entity schema of the README with its date field.
DatedSchema == [name |-> "string", createdAt |-> "date"]

\* The configurations documented: schema, resource name, base path and
\* unique fields.
SwaggerConfigs ==
    [schema : {ProductSchema, DatedSchema}, resourceName : {"product", "user"},
     basePath : {"/api"}, uniqueFields : {<<>>, uniqueFields}]

\* new Date().toISOString() at time t.
toISOString(t) == <<"ISO", t>>

\* resourceName.charAt(0).toUpperCase() + resourceName.slice(1).
capitalizedName(resourceName) ==
    CASE resourceName = "product" -> "Product"
      [] resourceName = "user" -> "User"
      [] OTHER -> resourceName

\* ZodToSwagger.convertSchema for an object schema: the properties.
convertSchema(schema) ==
    [key \in DOMAIN schema |->
        IF schema[key] = "date" THEN [type |-> "string", format |-> "date-time"]
        ELSE [type |-> schema[key], format |-> ""]]

\* ZodToSwagger.generateExample for an object schema, at time t.
generateExample(schema, t) ==
    [key \in DOMAIN schema |->
        CASE schema[key] = "string" -> <<"example-string">>
          [] schema[key] = "number" -> <<1>>
          [] schema[key] = "boolean" -> <<TRUE>>
          [] OTHER -> toISOString(t)]

\* SwaggerGenerator.generateResponses at time t: the example of each error
\* response.
generateResponses(config, t) ==
    LET example(type, message) ==
            [success |-> FALSE,
             error |-> [type |-> type, message |-> message,
                        timestamp |-> toISOString(t)]]
    IN  [ValidationError |-> example("VALIDATION_ERROR", "Request validation failed"),
         NotFound |-> example("NOT_FOUND_ERROR", "Resource not found"),
         DuplicateError |->
            example("DUPLICATE_ERROR",
                    IF Len(config.uniqueFields) > 0
                    THEN <<"Duplicate value for field(s): ", config.uniqueFields>>
                    ELSE <<"Duplicate entry", <<>>>>),
         ServerError |-> example("SERVER_ERROR", "Internal server error")]

\* new SwaggerGenerator(config).generateSwaggerOptions() at time t.
generateSwaggerOptions(config, t) ==
    [tags |-> capitalizedName(config.resourceName),
     schemas |-> [name |-> capitalizedName(config.resourceName),
                  properties |-> convertSchema(config.schema),
                  example |-> generateExample(config.schema, t)],
     responses |-> generateResponses(config, t),
     paths |-> config.basePath]

\* The caller's position after it generated the documentation first.
Documented(config, first) == Call("docs", "generated", 1, NoId, [config |-> config, first |-> first])

\* The documentation is generated for a configuration, the first time.
GenerateDocs(p) ==
    /\ Free(p)
    /\ \E config \in SwaggerConfigs :
        LET spec == generateSwaggerOptions(config, clock)
            r == Call("docs", "first", 0, NoId, [config |-> config, first |-> spec])
        IN  Take(p, Effect(Documented(config, spec), docs, nextId,
                           Completed(r, NotCalled, NotCalled, "none", FALSE, FALSE)
                               @@ [spec |-> spec]))

\* It is generated again from the same configuration.
GenerateAgain(p) ==
    /\ pc[p].op = "docs"
    /\ Take(p, Effect(Idle, docs, nextId,
                      Completed([pc[p] EXCEPT !.phase = "again"], NotCalled, NotCalled,
                                "none", FALSE, FALSE)
                          @@ [spec |-> generateSwaggerOptions(pc[p].data.config, clock)]))

\* Time passes.
Tick ==
    /\ clock < MaxClock
    /\ clock' = clock + 1
    /\ UNCHANGED <<docs, nextId, pc, ret, removed, exists, indexes, connection>>

\* The store changes meanwhile: entities are created.
DocsResume(p) == pc[p].op = "create" /\ Resume(p)

DocsNext ==
    \/ Deliver
    \/ Tick
    \/ \E p \in Procs :
        \/ GenerateDocs(p)
        \/ GenerateAgain(p)
        \/ Create(p)
        \/ DocsResume(p)

DocsSpec == Init /\ [][DocsNext]_vars

----------------------------------------------------------------------------
(* CrudController in front of the service: create, read and remove requests.
   logger says whether the logger calls made in a step return or throw. *)

\* The request's promise is rejected: nothing is sent and next() is not
\* called.
Dropped(error) == [kind |-> "none", status |-> 0, body |-> <<>>, error |-> Uncaught(error)]

\* The ValidationError a controller method throws for a missing id.
MissingIdentifier == ValidationError("Valid entity ID is required", "id")

\* The tail of a controller method once the service has handed back or
\* thrown svc: the success branch logs before it sends, the catch block
\* logs before it calls next(error); a falsy create result is answered
\* without logging.
Controller_respond(op, svc, logger, t) ==
    IF op = "create" /\ svc.kind = "null"
    THEN Send(201, [success |-> FALSE, data |-> {},
                    message |-> "Creation of Document for entity failed"])
    ELSE IF ~logger THEN Dropped(LoggerError)
    ELSE IF svc.kind = "throw" THEN Forward(svc.error)
    ELSE CASE op = "create" ->
                Send(201, [success |-> TRUE, message |-> "Entity created successfully",
                           data |-> svc.doc, timestamp |-> toISOString(t)])
           [] op = "read" ->
                Send(200, [success |-> TRUE, message |-> "Entity retrieved successfully",
                           data |-> svc.doc, timestamp |-> toISOString(t)])
           [] OTHER ->
                Send(201, [success |-> TRUE, message |-> "Entity removed successfully",
                           data |-> {}, timestamp |-> toISOString(t)])

\* The step e of a request with the controller's answer added to the
\* completed call.
Answered(e, logger) ==
    IF e.ret = NoRet THEN e
    ELSE [e EXCEPT !.ret = e.ret @@
              [http |-> Controller_respond(e.ret.op, e.ret.svc, logger, clock),
               logger |-> logger]]

\* The request r ends where a logger call threw before the store was
\* reached in this step: the catch block's logger.error throws as well.
Rejected(r) ==
    Effect(Idle, docs, nextId,
           Completed(r, NotCalled, NotCalled, "none", FALSE, FALSE)
               @@ [http |-> Dropped(LoggerError), logger |-> FALSE])

\* The request r ends in the controller's own check of the id parameter.
Refused(r) ==
    Effect(Idle, docs, nextId,
           Completed(r, NotCalled, Throws(MissingIdentifier), "none", FALSE, FALSE)
               @@ [http |-> Forward(MissingIdentifier), logger |-> TRUE])

\* POST: CrudController.create up to the first store call.
ControllerCreate(p) ==
    /\ Free(p)
    /\ IdsLeft
    /\ \E data \in CreateData(nextId), fault \in BOOLEAN, logger \in BOOLEAN :
        LET r == Advance(Call("create", "start", 0, NoId, data), 1)
        IN  Take(p, IF logger THEN Answered(create(r, docs, nextId, fault), TRUE)
                    ELSE Rejected(r))

\* GET /:id: CrudController.read.
ControllerRead(p) ==
    /\ Free(p)
    /\ \E id \in IdStrings \cup {NoId}, fault \in BOOLEAN, logger \in BOOLEAN :
        LET r == Call("read", "start", 0, id, <<>>)
            repo == read(id, docs, fault)
        IN  Take(p, IF ~logger THEN Rejected(r)
                    ELSE IF id = NoId THEN Refused(r)
                    ELSE Answered(Effect(Idle, docs, nextId,
                                         Completed(r, repo, Service_read(id, repo),
                                                   "none", fault, FALSE)), TRUE))

\* DELETE /:id: CrudController.remove up to the service's read.
ControllerRemove(p) ==
    /\ Free(p)
    /\ \E id \in IdStrings \cup {NoId}, fault \in BOOLEAN, logger \in BOOLEAN :
        LET r == Call("svcRemove", "svcread", 0, id, <<>>)
        IN  Take(p, IF ~logger THEN Rejected(r)
                    ELSE IF id = NoId THEN Refused(r)
                    ELSE Answered(Service_remove(r, docs, nextId, fault), TRUE))

\* A suspended request performs its next store call.  Repository.remove
\* logs on entry, before it reaches the store; create logs after its store
\* call.
ControllerResume(p) ==
    /\ pc[p] # Idle
    /\ \E fault \in BOOLEAN, logger \in BOOLEAN :
        Take(p, IF pc[p].op = "create"
                THEN Answered(create(pc[p], docs, nextId, fault), logger)
                ELSE IF logger
                THEN Answered(Service_remove(pc[p], docs, nextId, fault), TRUE)
                ELSE Rejected(pc[p]))

ControllerNext ==
    \/ Deliver
    \/ Tick
    \/ \E p \in Procs :
        \/ ControllerCreate(p)
        \/ ControllerRead(p)
        \/ ControllerRemove(p)
        \/ ControllerResume(p)

ControllerSpec == Init /\ [][ControllerNext]_vars

----------------------------------------------------------------------------
(* One request at a time: no two calls are in flight together *)

SeqNext ==
    \/ Deliver
    \/ Create(1)
    \/ Read(1)
    \/ Update(1)
    \/ Remove(1)
    \/ ServiceRemove(1)
    \/ Resume(1)

SeqSpec == Init /\ [][SeqNext]_vars

----------------------------------------------------------------------------
(* Two builders start against one collection: their initCollections calls
   interleave between store calls *)

\* A builder calls initCollections, once: listCollections.
InitConcurrently(p) ==
    /\ pc[p] = Idle
    /\ \E fault \in BOOLEAN :
        InitStep(p, initCollections(Call("init", "listCollections", 1, NoId,
                                         [call |-> 1]),
                                    pc[p], fault))

InitRaceNext == Deliver \/ \E p \in Procs : InitConcurrently(p) \/ InitResume(p)

InitRaceSpec == InitLegacy /\ [][InitRaceNext]_vars

----------------------------------------------------------------------------
(* MongoConnection: connect, getClient and disconnect.  logger says whether
   the logger calls made in a step return or throw. *)

MaxClients == 2

\* getClient's result.
ReturnClient(c) ==
    [kind |-> "client", doc |-> {}, flag |-> FALSE, error |-> NoError, client |-> c]

ClientUnavailable ==
    [message |-> "[MongoConnection] MongoDB client is not available. Call connect() first."]

\* A step of a MongoConnection method in slot p: the slot, the completed
\* call and the connection afterwards.
ConnectionStep(p, r, event, conn) ==
    /\ ret = NoRet
    /\ ~connection.exited
    /\ pc' = [pc EXCEPT ![p] = r]
    /\ ret' = event
    /\ connection' = conn
    /\ UNCHANGED <<docs, nextId, removed, exists, indexes, clock>>

\* connect() up to its await: it returns at once when the client field is
\* set; otherwise it makes a MongoClient, stores it in the field and
\* starts to connect.
Connect(p) ==
    /\ Free(p)
    /\ LET r == Call("connect", "start", 0, NoId, <<>>)
           made == connection.made + 1
       IN  IF connection.client # {}
           THEN ConnectionStep(p, Idle,
                               Completed(r, ReturnVoid, NotCalled, "none", FALSE, FALSE),
                               connection)
           ELSE /\ connection.made < MaxClients
                /\ ConnectionStep(p, [r EXCEPT !.phase = "await", !.k = made], NoRet,
                                  [connection EXCEPT !.client = {made}, !.made = made,
                                                     !.created = @ + 1])

\* client.connect() settles: connect() logs and returns, or logs and
\* re-throws; a logger call that throws in the try block is caught by the
\* catch block, whose own logger call throws then.
ConnectSettle(p) ==
    /\ pc[p].op = "connect"
    /\ \E fault \in BOOLEAN, logger \in BOOLEAN :
        ConnectionStep(p, Idle,
            Completed(pc[p],
                      IF ~logger THEN Throws(Uncaught(LoggerError))
                      ELSE IF fault THEN Throws(Uncaught(StoreFailure))
                      ELSE ReturnVoid,
                      NotCalled, "none", fault, FALSE),
            IF fault THEN connection
            ELSE [connection EXCEPT !.open = @ \cup {pc[p].k}])

\* getClient().
GetClient(p) ==
    /\ Free(p)
    /\ ConnectionStep(p, Idle,
            Completed(Call("getClient", "start", 0, NoId, <<>>),
                      IF connection.client = {} THEN Throws(Uncaught(ClientUnavailable))
                      ELSE ReturnClient(connection.client),
                      NotCalled, "none", FALSE, FALSE),
            connection)

\* disconnect() up to its await of client?.close().
Disconnect(p) ==
    /\ Free(p)
    /\ ConnectionStep(p, Call("disconnect", "await", 0, NoId, [closing |-> connection.client]),
                      NoRet, connection)

\* close() settles: the field is set to null, the closing is logged and
\* the process exits; the error of close(), or of the logger call, leaves
\* disconnect() before process.exit is reached.
DisconnectSettle(p) ==
    /\ pc[p].op = "disconnect"
    /\ \E fault \in BOOLEAN, logger \in BOOLEAN :
        LET failed == fault /\ pc[p].data.closing # {}
        IN  ConnectionStep(p, Idle,
                Completed(pc[p],
                          IF failed THEN Throws(Uncaught(StoreFailure))
                          ELSE IF ~logger THEN Throws(Uncaught(LoggerError))
                          ELSE ReturnVoid,
                          NotCalled, "none", failed, FALSE),
                IF failed THEN connection
                ELSE [connection EXCEPT !.client = {}, !.created = 0,
                                        !.exited = logger,
                                        !.open = @ \ pc[p].data.closing])

ConnectionNext ==
    \/ Deliver
    \/ \E p \in Procs :
        \/ Connect(p)
        \/ ConnectSettle(p)
        \/ GetClient(p)
        \/ Disconnect(p)
        \/ DisconnectSettle(p)

ConnectionSpec == Init /\ [][ConnectionNext]_vars

----------------------------------------------------------------------------
(* Properties *)

WellFormed(id) == ParseObjectId(id) # {}

\* Some document of store holds data's value for a declared unique field.
Collision(data, store) ==
    \E d \in store, i \in 1..Len(uniqueFields) :
        /\ uniqueFields[i] \in DOMAIN data \cap DOMAIN d
        /\ d[uniqueFields[i]] = data[uniqueFields[i]]

\* The live documents other than the one the identifier string names.
Others(id) == {d \in docs : d._id \notin ParseObjectId(id)}

Live(id) == docs \ Others(id)

IsError(out, type, statusCode) ==
    /\ out.kind = "throw"
    /\ out.error.type = type
    /\ out.error.statusCode = statusCode

C3_ServiceCreateReturnsNull ==
    (ret.op = "create" /\ ret.repo.kind = "null") => ret.svc.kind = "null"

C5_PrecheckRejectionWritesNothing ==
    ret.via = "precheck" => (ret.phase = "check" /\ ~ret.wrote)

\* A second create with a unique value a live document holds was rejected.
C5_Witness ==
    /\ ret.op = "create"
    /\ ret.via = "precheck"
    /\ ret.repo.kind = "null"
    /\ Collision(ret.data, docs)

C8_ServiceReadRaisesNotFound ==
    ret.op = "read" =>
        /\ ret.svc.kind # "null"
        /\ (WellFormed(ret.id) /\ ~ret.fault /\ Live(ret.id) = {})
              => /\ IsError(ret.svc, "NOT_FOUND_ERROR", 404)
                 /\ ret.svc.error.metadata.requestedId = ret.id

\* A read of a document that was removed, while another document is live.
C8_Witness ==
    /\ ret.op = "read"
    /\ ParseObjectId(ret.id) \subseteq removed
    /\ docs # {}
    /\ IsError(ret.svc, "NOT_FOUND_ERROR", 404)

\* C9: Repository.remove of a well-formed identifier returns true exactly
\* when this call deleted a live document and false, changing nothing,
\* otherwise; and once a removal succeeded every later read of that
\* identifier finds no document, whatever creates follow.
C9_RemovedStaysRemoved ==
    /\ (ret.op = "remove" /\ WellFormed(ret.id) /\ ~ret.fault)
          => (ret.repo.kind = "bool" /\ (ret.repo.flag <=> ret.wrote))
    /\ (ret.op = "read" /\ ~ret.fault /\ WellFormed(ret.id)
            /\ ParseObjectId(ret.id) \subseteq removed)
          => IsError(ret.svc, "NOT_FOUND_ERROR", 404)

C11_FreshIdentityAtCreation ==
    (ret.op = "create" /\ ret.repo.kind = "doc") =>
        \A D \in ret.repo.doc :
            /\ D \in docs
            /\ D._id = nextId - 1
            /\ D.createdAt = Now(nextId - 1)

\* C12: no update call, whatever its payload, changes the _id or the
\* createdAt of a live document: the identifiers in the collection are the
\* same after the call and every document keeps its createdAt.
C12_IdentityImmutable ==
    [][ret'.op = "update" =>
          /\ {e._id : e \in docs'} = {d._id : d \in docs}
          /\ \A d \in docs : \A e \in docs' :
                e._id = d._id => e.createdAt = d.createdAt]_vars

\* C13: a successful update(id, P) returns the document as it is stored
\* after the write; every field P names has P's value, every other field
\* has the value it had before the call, and no other document changed.
C13_PartialUpdatePreservesFields ==
    [][(ret'.op = "update" /\ ret'.repo.kind = "doc") =>
          \E old \in docs : \A new \in ret'.repo.doc :
              /\ old._id \in ParseObjectId(ret'.id)
              /\ new \in docs'
              /\ docs' \ {new} = docs \ {old}
              /\ DOMAIN new = DOMAIN old \cup DOMAIN ret'.data
              /\ \A f \in DOMAIN ret'.data : new[f] = ret'.data[f]
              /\ \A f \in DOMAIN old \ DOMAIN ret'.data : new[f] = old[f]]_vars

\* An update changed one of two live documents and left a unique field of
\* it, which the payload does not name, in place.
C13_Witness ==
    /\ ret.op = "update"
    /\ ret.repo.kind = "doc"
    /\ ret.wrote
    /\ Cardinality(docs) = 2
    /\ \E D \in ret.repo.doc, i \in 1..Len(uniqueFields) :
          uniqueFields[i] \in DOMAIN D \ DOMAIN ret.data

\* The declared unique fields the details of error e point at: the field of
\* the index named by duplicateField, or else the fields of the uniqueFields
\* list that the echoed update payload has.
NamedFields(e) ==
    IF "duplicateField" \in DOMAIN e.metadata
    THEN {uniqueFields[i] : i \in {j \in 1..Len(uniqueFields) :
              e.metadata.duplicateField = IndexName(uniqueFields[j])}}
    ELSE IF {"uniqueFields", "updateData"} \subseteq DOMAIN e.metadata
    THEN {e.metadata.uniqueFields[i] : i \in 1..Len(e.metadata.uniqueFields)}
            \cap DOMAIN e.metadata.updateData
    ELSE {}

\* The document the completed create or update tried to store.
Candidate ==
    IF ret.op = "update" /\ Live(ret.id) # {}
    THEN Spread(CHOOSE d \in Live(ret.id) : TRUE, ret.data)
    ELSE ret.data

\* C17: every DUPLICATE_ERROR that create or update raises for a collision
\* on a declared unique field identifies that one field, whether the
\* pre-check or the store's duplicate-key rejection found the collision.
C17_DuplicateNamesField ==
    (/\ ret.op \in {"create", "update"}
     /\ ret.via \in {"precheck", "store"}
     /\ IsError(ret.repo, "DUPLICATE_ERROR", 409)
     /\ ret.repo.error.metadata # [duplicateField |-> IdIndex, operation |-> "create"])
    => \E f \in {uniqueFields[i] : i \in 1..Len(uniqueFields)} :
          /\ NamedFields(ret.repo.error) = {f}
          /\ \E d \in (IF ret.op = "update" THEN Others(ret.id) ELSE docs) :
                IndexKey(d, f) = IndexKey(Candidate, f)

\* The texts of the store's native errors.
NativeMessages == {NativeMessage(code) : code \in {0, 66, 11000}}

\* The native error texts found in a response of the error handler, in its
\* message or in the texts of its details.
LeakedTexts(response) ==
    LET e == response.body.error
        texts == {e.message} \cup
                 (IF "details" \in DOMAIN e
                  THEN {e.details[k] : k \in DOMAIN e.details \cap {"operation", "originalError"}}
                  ELSE {})
    IN  texts \cap NativeMessages

\* C18: the response the error handler produces for an operation that failed
\* with DATABASE_ERROR holds no text of the store's native error, neither in
\* its message nor in its details.
C18_NoStoreTextInResponse ==
    IsError(ret.svc, "DATABASE_ERROR", 500) =>
        LeakedTexts(globalErrorHandler(ret.svc.error)) = {}

\* C15: when initCollections returns without error the collection exists
\* and has a unique index for every declared unique field, so that the store
\* rejects every insert that repeats a stored unique value.
C15_InitInstallsBackstop ==
    (ret.op = "init" /\ ret.repo.kind = "bool") =>
        /\ exists
        /\ UniqueIndexes \subseteq indexes
        /\ \A d \in docs, e \in LegacyDocs :
              (e._id # d._id /\ "email" \in DOMAIN e \cap DOMAIN d /\ e.email = d.email)
                  => insertOne(docs, e, FALSE).error.code = 11000

\* C16: two calls of initCollections in sequence whose store calls succeed
\* raise no error, the second reports that the collection already existed,
\* and afterwards the collection has exactly one unique index per declared
\* unique field.
C16_InitIdempotent ==
    /\ (ret.op = "init" /\ ~ret.fault) => ret.repo.kind = "bool"
    /\ (ret.op = "init" /\ ~ret.fault /\ ret.repo.kind = "bool" /\ ret.data.call >= 2) =>
          /\ ~ret.repo.flag
          /\ indexes = UniqueIndexes

\* Document d matches the filter query.
Matches(d, query) == \A k \in DOMAIN query : k \in DOMAIN d /\ d[k] = query[k]

Smaller(a, b) == IF a < b THEN a ELSE b

\* C14: find(filter, {skip, limit}) with skip >= 0 and limit > 0 over N
\* matching documents answers total = N, hasNext = (skip + limit < N),
\* hasPrevious = (skip > 0) and min(limit, max(0, N - skip)) items, all of
\* them stored documents that match the filter.
C14_PaginationMath ==
    (/\ ret.op = "find"
     /\ ret.repo.kind = "page"
     /\ {"skip", "limit"} \subseteq DOMAIN ret.data.options
     /\ ret.data.options.skip >= 0
     /\ ret.data.options.limit > 0)
    => LET page == ret.repo.page
           skip == ret.data.options.skip
           limit == ret.data.options.limit
           N == Cardinality({d \in docs : Matches(d, ret.data.query)})
       IN  /\ page.total = N
           /\ page.hasNext = (skip + limit < N)
           /\ page.hasPrevious = (skip > 0)
           /\ Len(page.data) = Smaller(limit, IF N - skip > 0 THEN N - skip ELSE 0)
           /\ \A i \in 1..Len(page.data) :
                 page.data[i] \in docs /\ Matches(page.data[i], ret.data.query)
           /\ \A i \in 1..Len(page.data), j \in 1..Len(page.data) :
                 i # j => page.data[i] # page.data[j]

\* A middle page: documents before it and after it, and exactly one page
\* whose end is the last document.
C14_Witness ==
    /\ ret.op = "find"
    /\ ret.repo.kind = "page"
    /\ {"skip", "limit"} \subseteq DOMAIN ret.data.options
    /\ ret.data.options.skip = 1
    /\ ret.data.options.limit = 1
    /\ ret.repo.page.total = 3
    /\ ret.repo.page.hasNext
    /\ ret.repo.page.hasPrevious

\* C19: every Repository operation answers a failure of its store call,
\* other than a duplicate-key rejection, with DATABASE_ERROR, and answers
\* neither a malformed identifier nor a unique-field collision with
\* DATABASE_ERROR.
C19_ErrorClassification ==
    /\ (/\ ret.op \in {"create", "read", "update", "remove"}
        /\ ret.fault
        /\ ret.op # "create" => WellFormed(ret.id))
       => IsError(ret.repo, "DATABASE_ERROR", 500)
    /\ (ret.op \in {"read", "update", "remove"} /\ ~WellFormed(ret.id))
       => IsError(ret.repo, "VALIDATION_ERROR", 400)
    /\ ret.via \in {"precheck", "store"} => ret.repo.error.type # "DATABASE_ERROR"
    /\ \A query \in Queries :
          /\ IsError(find(query, <<>>, docs, TRUE), "DATABASE_ERROR", 500)
          /\ IsError(Repository_findOne(query, docs, TRUE), "DATABASE_ERROR", 500)
          /\ IsError(count(query, docs, TRUE), "DATABASE_ERROR", 500)
          /\ find(query, <<>>, docs, FALSE).kind = "page"
          /\ Repository_findOne(query, docs, FALSE).kind \in {"doc", "null"}
          /\ count(query, docs, FALSE).kind = "count"

\* The store fails during the write of an update that passed the pre-check
\* and whose payload meanwhile collides with another document.
C19_Witness ==
    /\ ret.op = "update"
    /\ ret.phase = "write"
    /\ ret.fault
    /\ Collision(ret.data, Others(ret.id))
    /\ IsError(ret.repo, "DATABASE_ERROR", 500)

\* C20: a logger call that throws inside a Repository operation changes
\* neither what the operation hands back or raises nor the collection it
\* leaves: both are what they are when the logger calls return.
C20_LoggerFailureIsInert ==
    "sound" \in DOMAIN ret =>
        /\ ret.repo = ret.sound.out
        /\ docs = ret.sound.store

\* C21: an update is rejected by the pre-check only when a live document
\* other than its target holds a unique value of the payload; an update of
\* a live target whose payload values are held by no other document returns
\* the document, and one whose payload value another document holds raises
\* DUPLICATE_ERROR.
C21_PrecheckExcludesTarget ==
    (ret.op = "update" /\ WellFormed(ret.id) /\ ~ret.fault) =>
        /\ ret.via = "precheck" => Collision(ret.data, Others(ret.id))
        /\ (Live(ret.id) # {} /\ ~Collision(ret.data, Others(ret.id)))
              => ret.repo.kind = "doc"
        /\ (Live(ret.id) # {} /\ Collision(ret.data, Others(ret.id)))
              => IsError(ret.repo, "DUPLICATE_ERROR", 409)

\* An update handed a document its own unique value again, while another
\* document is live, and got the document back.
C21_Witness ==
    /\ ret.op = "update"
    /\ ret.repo.kind = "doc"
    /\ Cardinality(docs) = 2
    /\ \E D \in ret.repo.doc :
          /\ "email" \in DOMAIN ret.data
          /\ ~ret.wrote

\* The page's documents are in descending order of their creation time.
NewestFirst(data) ==
    \A i \in 1..Len(data), j \in 1..Len(data) :
        i < j => data[i].createdAt >= data[j].createdAt

\* C22: a find that is given no pagination runs with skip 0 and limit 20 and
\* returns the matching documents newest first, both when Repository.find is
\* called without options and when the controller handles a list request
\* without skip, limit, sortBy and sortOrder parameters.
C22_DefaultPagination ==
    /\ (ret.op = "find" /\ ret.repo.kind = "page" /\ DOMAIN ret.data.options = {}) =>
          /\ ret.repo.page.skip = 0
          /\ ret.repo.page.limit = 20
          /\ NewestFirst(ret.repo.page.data)
    /\ (ret.op = "list" /\ ret.http.kind = "send" /\ DOMAIN ret.data.params = {}) =>
          /\ ret.http.body.pagination.skip = 0
          /\ ret.http.body.pagination.limit = 20
          /\ NewestFirst(ret.http.body.data)

\* The value a string of a query is to become: a boolean for true and
\* false, the number for a decimal literal (sign, digits, fraction and
\* exponent, white space around it), a date for a date-time, else the
\* string itself.
Expected(s) ==
    LET t == Trim(s)
        sign == IF t # <<>> /\ Head(t) = "-" THEN -1 ELSE 1
        u == IF t # <<>> /\ Head(t) \in {"-", "+"} THEN Tail(t) ELSE t
    IN  IF s = TrueText THEN BooleanValue(TRUE)
        ELSE IF s = FalseText THEN BooleanValue(FALSE)
        ELSE IF ~DecimalLiteral(u, sign).nan THEN NumberValue(DecimalLiteral(u, sign))
        ELSE IF IsoPattern(s) /\ ~InvalidDate(s) THEN DateValue(NewDate(s))
        ELSE StringValue(s)

\* C23: coerceQueryParameters maps each string value on its own: true and
\* false become booleans, a string that is wholly a base-10 number becomes
\* that number, a date-time string becomes a date, and every other string,
\* the empty one included, stays as it is.
C23_QueryCoercion ==
    ret.op = "validateFind" =>
        /\ DOMAIN ret.coerced = DOMAIN ret.data \ PaginationKeys
        /\ \A key \in DOMAIN ret.coerced :
              /\ ret.coerced[key].type = Expected(ret.data[key]).type
              /\ ret.coerced[key] = Expected(ret.data[key])

\* C24: in a list request the value of a field whose declared schema type
\* is string reaches the partial validation as the string it was, also when
\* it reads like a number or a boolean, and the validation does not reject
\* the filter because of it.
C24_CoercionFollowsSchema ==
    ret.op = "validateFind" =>
        \A key \in DOMAIN ret.coerced \cap DOMAIN ProductSchema :
            (ProductSchema[key] = "string" /\ Len(ret.data[key]) >= 1) =>
                /\ ret.coerced[key].type = "string"
                /\ ret.coerced[key].value = ret.data[key]
                /\ ret.http.kind = "next" =>
                      key \notin ret.http.error.metadata.violations

\* C25: the documentation object generated again from the same schema and
\* entity metadata is identical to the one generated first, whatever time
\* passed and whatever happened to the store in between.
C25_DocsDeterministic ==
    (ret.op = "docs" /\ ret.phase = "again") => ret.spec = ret.data.first

\* C26: for every request a controller method handles, either a response is
\* sent or the error that was thrown is handed to next() as it is, never
\* neither; and the only response that reports a failure is the one for a
\* falsy create result, with status 201 and success false.
C26_ControllerForwardsErrors ==
    (ret.op \in {"create", "read", "svcRemove"} /\ "http" \in DOMAIN ret) =>
        /\ ret.http.kind \in {"send", "next"}
        /\ ret.http.kind = "next" <=> ret.svc.kind = "throw"
        /\ ret.http.kind = "next" => ret.http.error = ret.svc.error
        /\ (ret.http.kind = "send" /\ ~ret.http.body.success) =>
              (ret.op = "create" /\ ret.http.status = 201 /\ ret.svc.kind = "null")

\* C27: when no two requests run together on an initialized collection,
\* create never raises DUPLICATE_ERROR: whatever the unique index would
\* reject is rejected by the pre-check first and answered with null, also
\* for entity data that leaves a declared unique field out.
C27_SequentialCreateNeverDuplicate ==
    ret.op = "create" =>
        /\ ~IsError(ret.repo, "DUPLICATE_ERROR", 409)
        /\ ret.via # "store"

\* C28: Service.update of a well-formed identifier that has no live document
\* raises NOT_FOUND_ERROR (404) and leaves the collection as it was,
\* whatever the payload, also when another document holds a unique value
\* of the payload.
C28_UpdateAbsentIsNotFound ==
    (ret.op = "update" /\ WellFormed(ret.id) /\ ~ret.fault /\ Live(ret.id) = {}) =>
        /\ IsError(ret.svc, "NOT_FOUND_ERROR", 404)
        /\ ~ret.wrote

\* C29: when the initCollections calls of two builders interleave on one
\* collection, each call whose store calls succeed completes without
\* raising, and a collection over which the unique indexes can be built has
\* exactly one unique index per declared unique field afterwards.
C29_InterleavedInitSafe ==
    (ret.op = "init" /\ ~ret.fault) =>
        /\ ret.repo.kind = "bool"
        /\ (\A ix \in UniqueIndexes : Buildable(docs, ix)) => indexes = UniqueIndexes

\* C30: getClient returns a client only when a connect has completed with
\* success for it and no disconnect followed, and throws otherwise (before
\* any connect, while a connect is under way, after a connect that failed);
\* and connect calls, however they interleave, make at most one client.
C30_ConnectionLifecycle ==
    /\ ret.op = "getClient" =>
          /\ ret.repo.kind = "client" => ret.repo.client \subseteq connection.open
          /\ ret.repo.kind = "throw" => connection.client \cap connection.open = {}
    /\ connection.created <= 1

====
